---- MODULE Spec2Model ----
(***************************************************************************)
(* A model of scraper.py (AnthropicDocsScraper): one run of --init or      *)
(* --update, the concurrent download_file tasks it gathers, the shared     *)
(* AsyncLimiter and the files the run reads and writes.                    *)
(*                                                                         *)
(* Time is counted in ticks of 1/requests_per_second seconds, the time in  *)
(* which the limiter's bucket leaks exactly one permit.                    *)
(***************************************************************************)
EXTENDS Integers, Sequences, FiniteSets, TLC

\* ------------------------------------------------------------- parameters

\* AnthropicDocsScraper(requests_per_second=...): permits per second.
requests_per_second == 2

\* download_file(max_retries=...): retries after the first attempt.
max_retries == 2

\* self.cache_seconds (cache_hours * 3600 in the code), counted in ticks and
\* scaled down.
cache_ticks == 1

\* The longest manifest a run is given.
MaxEntries == 2

TicksPerSecond == requests_per_second

\* ------------------------------------------------------------ path mapper

Last(s) == s[Len(s)]

Front(s) == SubSeq(s, 1, Len(s) - 1)

\* str.strip("/") on the URL's path, a sequence of tokens.
RECURSIVE lstrip(_)
lstrip(s) == IF s # <<>> /\ Head(s) = "/" THEN lstrip(Tail(s)) ELSE s

RECURSIVE rstrip(_)
rstrip(s) == IF s # <<>> /\ Last(s) = "/" THEN rstrip(Front(s)) ELSE s

strip(s) == rstrip(lstrip(s))

\* str.split("/"): the segments between the separators, empty ones kept;
\* the empty string splits into one empty segment.
RECURSIVE split_acc(_, _, _)
split_acc(s, cur, acc) ==
    IF s = <<>> THEN Append(acc, cur)
    ELSE IF Head(s) = "/" THEN split_acc(Tail(s), <<>>, Append(acc, cur))
    ELSE split_acc(Tail(s), Append(cur, Head(s)), acc)

split(s) == split_acc(s, <<>>, <<>>)

\* pathlib drops the empty components of a joined path.
RECURSIVE path_join(_)
path_join(parts) ==
    IF parts = <<>> THEN <<>>
    ELSE IF Head(parts) = <<>> THEN path_join(Tail(parts))
    ELSE <<Head(parts)>> \o path_join(Tail(parts))

base_dir_name == <<"docs">>

url_to_path(url, section) ==
    LET parts0 == split(strip(url))
        path_parts == IF parts0 # <<>> /\ parts0[1] = <<"en">>
                      THEN Tail(parts0) ELSE parts0
        dirs == IF path_parts = <<>> THEN <<>> ELSE Front(path_parts)
        dir_path == IF section # <<>> /\ section # <<"docs">>
                    THEN path_join(<<base_dir_name, section>> \o dirs)
                    ELSE path_join(<<base_dir_name>> \o dirs)
        filename == IF path_parts # <<>>
                    THEN IF Last(path_parts) # <<>> /\ Last(Last(path_parts)) = ".md"
                         THEN Last(path_parts)
                         ELSE Append(Last(path_parts), ".md")
                    ELSE <<"index", ".md">>
    IN  Append(dir_path, filename)

\* ------------------------------------------------------- manifest entries

EntryA == [url |-> <<"/", "en", "/", "a">>, section |-> <<"docs">>]

EntryA2 == [url |-> <<"/", "a">>, section |-> <<>>]

EntryB == [url |-> <<"/", "en", "/", "api", "/", "b", ".md">>, section |-> <<"api">>]

\* The manifests the remote end may serve are prefixes of these lists
\* (read cyclically): entries with distinct paths, two distinct entries
\* with one path, and a duplicated entry.
Catalogues == { <<EntryA, EntryB, EntryA2>>, <<EntryA, EntryA, EntryB>> }

Manifests ==
    { [k \in 1..n |-> c[((k - 1) % Len(c)) + 1]] : c \in Catalogues, n \in 0..MaxEntries }

Paths == { url_to_path(e.url, e.section) : e \in {EntryA, EntryA2, EntryB} }

\* ------------------------------------------------------------------ files

NoFile == [exists |-> FALSE, content |-> <<>>, age |-> 0]

FileOf(content, age) == [exists |-> TRUE, content |-> content, age |-> age]

OldContent == <<"old">>

\* What open(path, "w") followed by a failing write leaves behind.
Partial == <<"partial">>

FreshFile == FileOf(OldContent, 0)

StaleFile == FileOf(OldContent, cache_ticks)

PathA == url_to_path(EntryA.url, EntryA.section)

EmptyTree == [p \in Paths |-> NoFile]

\* The trees an earlier run may have left: nothing yet, one file still
\* recent and the other missing, one file stale and the other recent.
InitialTrees ==
    { EmptyTree,
      [p \in Paths |-> IF p = PathA THEN FreshFile ELSE NoFile],
      [p \in Paths |-> IF p = PathA THEN StaleFile ELSE FreshFile] }

Min(a, b) == IF a < b THEN a ELSE b

Max(a, b) == IF a > b THEN a ELSE b

\* ------------------------------------------------------------------ state

VARIABLES
    mode,            \* "init" | "update": the command line's choice
    remote,          \* the manifest the server holds at llms_url
    faults,          \* the errors this run's network and disk can raise
    newline,         \* the line ends of the manifest text: "LF" | "CRLF"
    main,            \* where init_build_async / update_build_async stands
    base_dir,        \* self.base_dir.exists()
    files,           \* the files under base_dir, by path
    llms_file,       \* llms.txt, the local copy of the manifest
    backups,         \* docs_backup_*.tar.gz archives written
    should_rebuild,  \* init_build_async's local
    urls,            \* fetch_llms_txt's result
    tasks,           \* the download_file coroutines handed to gather
    level,           \* AsyncLimiter._level
    grants,          \* permits granted, by age in ticks, within one second
    counts           \* success_count, cached_count, fail_count as logged

vars == <<mode, remote, faults, newline, main, base_dir, files, llms_file, backups, should_rebuild,
          urls, tasks, level, grants, counts>>

N == Len(urls)

NoCounts == [reported |-> FALSE, success |-> 0, cached |-> 0, fail |-> 0]

\* ------------------------------------------------------- freshness cache

\* is_file_recent: time.time() - st_mtime < self.cache_seconds.
is_file_recent(f) == f.exists /\ f.age < cache_ticks

\* should_do_full_rebuild: the tree exists and llms.txt is not recent.
should_do_full_rebuild ==
    IF ~base_dir THEN FALSE ELSE ~is_file_recent(llms_file)

\* A variant that skips a recent file whether forced or not.
skip_download_unforced(force, f) == is_file_recent(f)

\* A variant that reads the force flag the wrong way round.
skip_download_inverted(force, f) == force /\ is_file_recent(f)

\* download_file's first test: skip a recent file unless forced.
skip_download(force, f) == ~force /\ is_file_recent(f)

\* ----------------------------------------------------------- rate limiter

\* AsyncLimiter(requests_per_second, 1.0): a leaky bucket of capacity
\* max_rate that leaks max_rate / time_period permits per second.
max_rate == requests_per_second

time_period_ticks == 1 * TicksPerSecond

\* A variant whose bucket never drains.
leak_never(l) == l

\* _leak over one tick: elapsed * rate_per_sec = 1 permit, floor at empty.
leak(l) == Max(l - 1, 0)

\* has_capacity(1): the bucket takes one more permit.
has_capacity(l) == l + 1 <= max_rate

Window == 0..(time_period_ticks - 1)

NoGrants == [a \in Window |-> 0]

\* -------------------------------------------------------- download_file

\* A variant with a linear backoff.
wait_time_linear(attempt) == 2 * attempt

\* Exponential backoff: 2**attempt seconds.
wait_time(attempt) == 2 ^ attempt

\* `if attempt < max_retries`: the handler sleeps and the loop goes on.
retry_allowed(attempt) == attempt < max_retries

\* A variant whose loop does not advance.
next_attempt_stuck(attempt) == attempt

\* `for attempt in range(max_retries + 1)`: the loop's next value.
next_attempt(attempt) == attempt + 1

\* What an attempt can raise inside the try block: the request or
\* raise_for_status (network), mkdir or open (before the file is opened),
\* or write (after open(path, "w") created or truncated the file).
ErrorKinds == {"network", "fs_before_open", "fs_after_open"}

\* The URL requested: ".md" is added unless the URL ends with it.
download_url(url) == IF url # <<>> /\ Last(url) = ".md" THEN url ELSE Append(url, ".md")

\* download_file(url, file_path, session, force) before its first step.
NewTask(url, path, force) ==
    [url |-> url, file_path |-> path,
     requested |-> <<>>,
     pc |-> "start", attempt |-> 0, force |-> force, timer |-> 0,
     error |-> "none", result |-> "none",
     permits |-> 0, requests |-> 0, writes |-> 0]

entry_path(e) == url_to_path(e.url, e.section)

\* The body of the response to task i's attempt; it is written as it came,
\* as text or, when it does not decode, as bytes.
Body(i, attempt) == <<"body", i, attempt>>

TaskSet == 1..N

Start(i) ==
    /\ main = "gather"
    /\ tasks[i].pc = "start"
    /\ tasks' = IF skip_download(tasks[i].force, files[tasks[i].file_path])
                THEN [tasks EXCEPT ![i].pc = "done", ![i].result = "cached"]
                ELSE [tasks EXCEPT ![i].pc = "acquire"]
    /\ UNCHANGED <<mode, remote, faults, newline, main, base_dir, files, llms_file, backups,
                   should_rebuild, urls, level, grants, counts>>

\* `async with self.rate_limiter`: the permit is taken, then the request
\* is sent.
Acquire(i) ==
    /\ main = "gather"
    /\ tasks[i].pc = "acquire"
    /\ has_capacity(level)
    /\ level' = level + 1
    /\ grants' = [grants EXCEPT ![0] = @ + 1]
    /\ tasks' = [tasks EXCEPT ![i].pc = "request",
                              ![i].requested = download_url(tasks[i].url),
                              ![i].permits = @ + 1,
                              ![i].requests = @ + 1]
    /\ UNCHANGED <<mode, remote, faults, newline, main, base_dir, files, llms_file, backups,
                   should_rebuild, urls, counts>>

\* A variant that keeps a file that is already there (first writer wins).
write_content_exclusive(f, content) == IF f.exists THEN f ELSE FileOf(content, 0)

\* open(file_path, "w") and f.write(content): whatever was there is
\* replaced; no other task runs between the two calls.
write_content(f, content) == FileOf(content, 0)

\* The response arrived, the directory was made and the body written.
AttemptSucceeds(i) ==
    /\ main = "gather"
    /\ tasks[i].pc = "request"
    /\ files' = [files EXCEPT ![tasks[i].file_path] =
                    write_content(@, Body(i, tasks[i].attempt))]
    /\ base_dir' = TRUE
    /\ tasks' = [tasks EXCEPT ![i].pc = "done", ![i].result = "True",
                              ![i].writes = @ + 1]
    /\ UNCHANGED <<mode, remote, faults, newline, main, llms_file, backups, should_rebuild, urls,
                   level, grants, counts>>

\* `except Exception`: sleep and retry, or give up after the last attempt.
\* A filesystem error raised by write leaves the file open(path, "w") made.
AttemptFails(i) ==
    /\ main = "gather"
    /\ tasks[i].pc = "request"
    /\ \E kind \in faults :
         LET wrote == kind = "fs_after_open"
             error == IF kind = "network" THEN "NetworkError" ELSE "FilesystemError"
         IN
         /\ files' = IF wrote
                     THEN [files EXCEPT ![tasks[i].file_path] = FileOf(Partial, 0)]
                     ELSE files
         /\ tasks' = IF retry_allowed(tasks[i].attempt)
                     THEN [tasks EXCEPT
                             ![i].pc = "sleep",
                             ![i].error = error,
                             ![i].timer = wait_time(tasks[i].attempt) * TicksPerSecond,
                             ![i].writes = IF wrote THEN @ + 1 ELSE @]
                     ELSE [tasks EXCEPT
                             ![i].pc = "done",
                             ![i].result = "False",
                             ![i].writes = IF wrote THEN @ + 1 ELSE @]
    /\ UNCHANGED <<mode, remote, faults, newline, main, base_dir, llms_file, backups, should_rebuild,
                   urls, level, grants, counts>>

\* A variant that holds one permit for all attempts: after the sleep the
\* next request is sent without asking the limiter.
Wake_without_permit(i) ==
    /\ main = "gather"
    /\ tasks[i].pc = "sleep"
    /\ tasks[i].timer = 0
    /\ tasks' = [tasks EXCEPT ![i].pc = "request",
                              ![i].error = "none",
                              ![i].attempt = next_attempt(@),
                              ![i].requests = @ + 1]
    /\ UNCHANGED <<mode, remote, faults, newline, main, base_dir, files, llms_file, backups,
                   should_rebuild, urls, level, grants, counts>>

\* asyncio.sleep(wait_time) is over: the loop starts the next attempt.
Wake(i) ==
    /\ main = "gather"
    /\ tasks[i].pc = "sleep"
    /\ tasks[i].timer = 0
    /\ tasks' = [tasks EXCEPT ![i].pc = "acquire",
                              ![i].error = "none",
                              ![i].attempt = next_attempt(@)]
    /\ UNCHANGED <<mode, remote, faults, newline, main, base_dir, files, llms_file, backups,
                   should_rebuild, urls, level, grants, counts>>

TaskStep(i) ==
    /\ i \in TaskSet
    /\ \/ Start(i)
       \/ Acquire(i)
       \/ AttemptSucceeds(i)
       \/ AttemptFails(i)
       \/ Wake(i)

\* ------------------------------------------------------- fetch_llms_txt

\* The manifest text: its lines, of which only the entries are kept, and
\* its line ends.
Text(entries, nl) == [entries |-> entries, newline |-> nl]

\* open(llms_file, "r") and f.read(): the text as written, every line end
\* read as "\n".
read_text(t) == [t EXCEPT !.newline = "LF"]

\* The lines are split at "\n" and stripped, and the entry lines kept.
parse_urls(t) == t.entries

\* The stored copy is rewritten only when there is none or the text read
\* from it differs from the text fetched.
save_llms(f, new_text) ==
    IF f.exists
    THEN IF read_text(f.content) # new_text THEN FileOf(new_text, 0) ELSE f
    ELSE FileOf(new_text, 0)

\* The request succeeded: new_text is the manifest served, and the entries
\* parsed from it are returned.
FetchLlmsTxt ==
    /\ main = "fetch_llms"
    /\ LET new_text == Text(remote, newline)
       IN  /\ llms_file' = save_llms(llms_file, new_text)
           /\ urls' = parse_urls(new_text)
    /\ main' = "prepare"
    /\ UNCHANGED <<mode, remote, faults, newline, base_dir, files, backups, should_rebuild, tasks,
                   level, grants, counts>>

\* session.get or raise_for_status raised: the exception leaves the run.
FetchLlmsTxtFails ==
    /\ main = "fetch_llms"
    /\ main' = "failed"
    /\ UNCHANGED <<mode, remote, faults, newline, base_dir, files, llms_file, backups, should_rebuild,
                   urls, tasks, level, grants, counts>>

\* ----------------------------------------------------- init_build_async

\* A variant that removes the tree as soon as it has decided to rebuild.
InitBegin_wipes_first ==
    /\ mode = "init"
    /\ main = "begin"
    /\ should_rebuild' = should_do_full_rebuild
    /\ files' = IF should_do_full_rebuild THEN [p \in DOMAIN files |-> NoFile] ELSE files
    /\ main' = "fetch_llms"
    /\ UNCHANGED <<mode, remote, faults, newline, base_dir, llms_file, backups, urls, tasks,
                   level, grants, counts>>

InitBegin ==
    /\ mode = "init"
    /\ main = "begin"
    /\ should_rebuild' = should_do_full_rebuild
    /\ main' = "fetch_llms"
    /\ UNCHANGED <<mode, remote, faults, newline, base_dir, files, llms_file, backups, urls, tasks,
                   level, grants, counts>>

\* A variant that takes the decision when the manifest has been fetched.
rebuild_decided_late == should_do_full_rebuild

\* `if should_rebuild:`, the local computed before fetch_llms_txt.
rebuild_decided == should_rebuild

\* backup_docs_folder wrote its archive (it writes none without a tree).
InitBackup ==
    /\ mode = "init"
    /\ main = "prepare"
    /\ rebuild_decided
    /\ backups' = IF base_dir THEN backups + 1 ELSE backups
    /\ main' = "backed_up"
    /\ UNCHANGED <<mode, remote, faults, newline, base_dir, files, llms_file, should_rebuild,
                   urls, tasks, level, grants, counts>>

\* A variant in which the failure is swallowed and the run goes on.
BackupFails_swallowed ==
    /\ mode = "init"
    /\ main = "prepare"
    /\ rebuild_decided
    /\ base_dir
    /\ main' = "backed_up"
    /\ UNCHANGED <<mode, remote, faults, newline, base_dir, files, llms_file, backups, should_rebuild,
                   urls, tasks, level, grants, counts>>

\* tarfile raised while the archive was written: the exception leaves the run.
BackupFails ==
    /\ mode = "init"
    /\ main = "prepare"
    /\ rebuild_decided
    /\ base_dir
    /\ main' = "failed"
    /\ UNCHANGED <<mode, remote, faults, newline, base_dir, files, llms_file, backups, should_rebuild,
                   urls, tasks, level, grants, counts>>

\* shutil.rmtree(self.base_dir), when the tree exists.
InitRmtree ==
    /\ mode = "init"
    /\ main = "backed_up"
    /\ files' = IF base_dir THEN [p \in DOMAIN files |-> NoFile] ELSE files
    /\ base_dir' = FALSE
    /\ main' = "wiped"
    /\ UNCHANGED <<mode, remote, faults, newline, llms_file, backups, should_rebuild,
                   urls, tasks, level, grants, counts>>

\* mkdir, and one forced task per entry handed to gather.
InitPrepare ==
    /\ mode = "init"
    /\ \/ main = "wiped"
       \/ main = "prepare" /\ ~rebuild_decided
    /\ base_dir' = TRUE
    /\ tasks' = [i \in 1..N |-> NewTask(urls[i].url, entry_path(urls[i]), TRUE)]
    /\ main' = "gather"
    /\ UNCHANGED <<mode, remote, faults, newline, files, llms_file, backups, should_rebuild, urls,
                   level, grants, counts>>

\* --------------------------------------------------- update_build_async

\* A variant that does not look for the tree.
UpdateBegin_unchecked ==
    /\ mode = "update"
    /\ main = "begin"
    /\ main' = "fetch_llms"
    /\ UNCHANGED <<mode, remote, faults, newline, base_dir, files, llms_file, backups, should_rebuild,
                   urls, tasks, level, grants, counts>>

UpdateBegin ==
    /\ mode = "update"
    /\ main = "begin"
    /\ main' = IF ~base_dir THEN "no_docs" ELSE "fetch_llms"
    /\ UNCHANGED <<mode, remote, faults, newline, base_dir, files, llms_file, backups, should_rebuild,
                   urls, tasks, level, grants, counts>>

\* A variant that never forces.
update_force_never(f) == FALSE

\* An existing file respects the cache, a missing one is forced.
update_force(f) == ~f.exists

\* ------------------------------------------------------------ the counts

RECURSIVE count_of(_, _)
count_of(results, value) ==
    IF results = <<>> THEN 0
    ELSE (IF Head(results) = value THEN 1 ELSE 0) + count_of(Tail(results), value)

success_count(results) == count_of(results, "True")

cached_count(results) == count_of(results, "cached")

\* A variant that counts only the False results.
fail_count_only_false(results) == count_of(results, "False")

fail_count(results) ==
    Len(results) - success_count(results) - cached_count(results)

Tally(results) ==
    [reported |-> TRUE,
     success  |-> success_count(results),
     cached   |-> cached_count(results),
     fail     |-> fail_count(results)]

\* One task per entry; with no task the counts are logged at once.
UpdatePrepare ==
    /\ mode = "update"
    /\ main = "prepare"
    /\ tasks' = [i \in 1..N |->
                    NewTask(urls[i].url, entry_path(urls[i]),
                            update_force(files[entry_path(urls[i])]))]
    /\ IF N > 0
       THEN main' = "gather" /\ counts' = counts
       ELSE main' = "reported" /\
            counts' = [reported |-> TRUE, success |-> 0, cached |-> 0, fail |-> 0]
    /\ UNCHANGED <<mode, remote, faults, newline, base_dir, files, llms_file, backups, should_rebuild,
                   urls, level, grants>>

\* asyncio.gather(*tasks, return_exceptions=True) returned: every task is
\* done and its result, or the exception it raised, is in the list.
AllDone == \A i \in TaskSet : tasks[i].pc = "done"

Report ==
    /\ main = "gather"
    /\ AllDone
    /\ counts' = Tally([i \in TaskSet |-> tasks[i].result])
    /\ main' = "reported"
    /\ UNCHANGED <<mode, remote, faults, newline, base_dir, files, llms_file, backups, should_rebuild,
                   urls, tasks, level, grants>>

\* ------------------------------------------------------------------- time

age_file(f) == IF f.exists THEN [f EXCEPT !.age = Min(@ + 1, cache_ticks)] ELSE f

\* One tick passes while the run waits on the network, the limiter or a
\* sleep; a task that can run without waiting runs first.
Tick ==
    /\ \/ main = "fetch_llms"
       \/ /\ main = "gather"
          /\ ~AllDone
          /\ \A i \in TaskSet :
                /\ tasks[i].pc # "start"
                /\ ~(tasks[i].pc = "sleep" /\ tasks[i].timer = 0)
                /\ ~(tasks[i].pc = "acquire" /\ has_capacity(level))
    /\ level' = leak(level)
    /\ grants' = [a \in Window |-> IF a = 0 THEN 0 ELSE grants[a - 1]]
    /\ tasks' = [i \in TaskSet |->
                    [tasks[i] EXCEPT !.timer = Max(@ - 1, 0)]]
    /\ files' = [p \in DOMAIN files |-> age_file(files[p])]
    /\ llms_file' = age_file(llms_file)
    /\ UNCHANGED <<mode, remote, faults, newline, main, base_dir, backups, should_rebuild, urls, counts>>

\* ---------------------------------------------------------- specification

OldManifest == <<EntryA>>

\* The llms.txt a previous run can have left: none, or the old text,
\* just written or as old as the cache window.
OldLlmsFiles(nl) ==
    { NoFile, FileOf(Text(OldManifest, nl), 0), FileOf(Text(OldManifest, nl), cache_ticks) }

Init ==
    /\ mode \in {"init", "update"}
    /\ remote \in Manifests
    /\ faults = ErrorKinds
    /\ newline = "LF"
    /\ main = "begin"
    /\ base_dir \in BOOLEAN
    /\ files \in (IF base_dir THEN InitialTrees ELSE {EmptyTree})
    /\ llms_file \in OldLlmsFiles(newline)
    /\ backups = 0
    /\ should_rebuild = FALSE
    /\ urls = <<>>
    /\ tasks = <<>>
    /\ level = 0
    /\ grants = NoGrants
    /\ counts = NoCounts

Next ==
    \/ InitBegin
    \/ UpdateBegin
    \/ FetchLlmsTxt
    \/ FetchLlmsTxtFails
    \/ InitBackup
    \/ BackupFails
    \/ InitRmtree
    \/ InitPrepare
    \/ UpdatePrepare
    \/ \E i \in TaskSet : TaskStep(i)
    \/ Report
    \/ Tick

Spec == Init /\ [][Next]_vars

\* ------------------------------------------- a task that raises

\* A variant in which the first exception ends the run: the tasks still
\* pending are cancelled.
gather_cancel_pending(ts, i) ==
    [j \in DOMAIN ts |->
        IF j # i /\ ts[j].pc # "done"
        THEN [ts[j] EXCEPT !.pc = "done", !.result = "cancelled"]
        ELSE ts[j]]

\* gather(..., return_exceptions=True): an exception a task raises becomes
\* that task's result and the other tasks are left running.
gather_return_exceptions(ts, i) == ts

\* download_file lets through what is raised outside its try block: while
\* it enters the limiter, or in the handler while it sleeps.
TaskRaises(i) ==
    /\ main = "gather"
    /\ tasks[i].pc \in {"acquire", "sleep"}
    /\ tasks' = gather_return_exceptions(
                    [tasks EXCEPT ![i].pc = "done", ![i].result = "exception"], i)
    /\ UNCHANGED <<mode, remote, faults, newline, main, base_dir, files, llms_file, backups,
                   should_rebuild, urls, level, grants, counts>>

NextFault ==
    \/ Next
    \/ \E i \in TaskSet : TaskRaises(i)

FaultSpec == Init /\ [][NextFault]_vars

\* ------------------------------------------------- a burst of requests

\* A run whose manifest has more entries than the limiter has permits, on
\* a disk that does not fail.  The number of entries of that manifest:
BurstEntries == 3

BurstManifest ==
    [k \in 1..BurstEntries |-> <<EntryA, EntryB, EntryA2>>[((k - 1) % 3) + 1]]

BurstInit ==
    /\ mode \in {"init", "update"}
    /\ remote = IF mode = "init" THEN BurstManifest ELSE <<EntryA>>
    /\ faults = {"network"}
    /\ newline = "LF"
    /\ main = "begin"
    /\ base_dir = TRUE
    /\ files = EmptyTree
    /\ llms_file = NoFile
    /\ backups = 0
    /\ should_rebuild = FALSE
    /\ urls = <<>>
    /\ tasks = <<>>
    /\ level = 0
    /\ grants = NoGrants
    /\ counts = NoCounts

BurstSpec == BurstInit /\ [][Next]_vars

\* ------------------------------------------- the manifest's line ends

\* A run over an existing tree, the server's text ending its lines either
\* way and llms.txt, when there is one, written from a text of that kind.
SentinelInit ==
    /\ mode \in {"init", "update"}
    /\ remote \in { OldManifest, <<EntryA, EntryB>> }
    /\ faults = {"network"}
    /\ newline \in {"LF", "CRLF"}
    /\ main = "begin"
    /\ base_dir = TRUE
    /\ files = EmptyTree
    /\ llms_file \in OldLlmsFiles(newline)
    /\ backups = 0
    /\ should_rebuild = FALSE
    /\ urls = <<>>
    /\ tasks = <<>>
    /\ level = 0
    /\ grants = NoGrants
    /\ counts = NoCounts

SentinelSpec == SentinelInit /\ [][Next]_vars

\* ------------------------------------------------- the path mapper's inputs

\* URL paths with no segment, with nothing but the locale segment, with
\* empty segments, and with "en" in a later place.
MapperUrls ==
    { <<>>, <<"/">>, <<"/", "en">>, <<"/", "en", "/">>, <<"/", "en", "/", "a">>,
      <<"/", "a", "/", "/", "b", ".md">>, <<"/", "a", "/", "en">> }

MapperSections == { <<>>, <<"docs">>, <<"api">> }

MapperEntries == [url : MapperUrls, section : MapperSections]

\* A run over a manifest of one of these entries, on an empty tree.
MapperInit ==
    /\ mode \in {"init", "update"}
    /\ remote \in { <<e>> : e \in MapperEntries }
    /\ faults = {"network"}
    /\ newline = "LF"
    /\ main = "begin"
    /\ base_dir = TRUE
    /\ files = [p \in { entry_path(e) : e \in MapperEntries } |-> NoFile]
    /\ llms_file = NoFile
    /\ backups = 0
    /\ should_rebuild = FALSE
    /\ urls = <<>>
    /\ tasks = <<>>
    /\ level = 0
    /\ grants = NoGrants
    /\ counts = NoCounts

MapperSpec == MapperInit /\ [][Next]_vars

\* -------------------------------------------------------------- fairness

\* The event loop runs a task that can run, replies arrive, time passes.
Fairness ==
    /\ WF_vars(Tick)
    /\ WF_vars(Report \/ \E i \in TaskSet : TaskStep(i))

FairSpec == Init /\ [][Next]_vars /\ Fairness

FairFaultSpec == Init /\ [][NextFault]_vars /\ Fairness

FairBurstSpec == BurstInit /\ [][Next]_vars /\ Fairness

\* =================================================================== claims

Outcomes == {"True", "cached", "False", "exception"}

CountIn(S) == Cardinality({ i \in DOMAIN tasks : tasks[i].result \in S })

SharesPath(i) == \E j \in DOMAIN tasks : j # i /\ tasks[j].file_path = tasks[i].file_path

RECURSIVE pow2(_)
pow2(n) == IF n = 0 THEN 1 ELSE 2 * pow2(n - 1)

RECURSIVE SumGrants(_)
SumGrants(a) == IF a < 0 THEN 0 ELSE grants[a] + SumGrants(a - 1)

\* Permits granted within the last second.
GrantsInWindow == SumGrants(time_period_ticks - 1)

\* ----------------------------------------------------------------------- C1
\* C1: when a run reports its counts, every manifest entry has exactly one
\* task, that task is done with one outcome (an exception it raised
\* included), the counters are the numbers of True, cached and other
\* results, and success + cached + fail equals the number of entries.
C1_CountsSum ==
    counts.reported =>
        /\ Len(tasks) = Len(remote)
        /\ \A i \in DOMAIN tasks :
              /\ tasks[i].url = remote[i].url
              /\ tasks[i].pc = "done"
              /\ tasks[i].result \in Outcomes
        /\ counts.success = CountIn({"True"})
        /\ counts.cached = CountIn({"cached"})
        /\ counts.fail = CountIn({"False", "exception"})
        /\ counts.success + counts.cached + counts.fail = Len(remote)

\* A report over a manifest that names one entry twice, one of whose tasks
\* raised while the other one downloaded.
C1_Witness ==
    /\ counts.reported
    /\ Len(remote) = 2
    /\ remote[1] = remote[2]
    /\ \E i, j \in DOMAIN tasks :
          tasks[i].result = "exception" /\ tasks[j].result = "True"

\* ----------------------------------------------------------------------- C2
\* C2: in every window of one second the limiter has granted at most
\* max_rate permits, counted over all tasks and all attempts.
C2_WindowBound == GrantsInWindow <= max_rate

\* ----------------------------------------------------------------------- C3
\* C3: a task that starts unforced on an existing file younger than the
\* cache window finishes in that step with "cached", having taken no
\* permit, sent no request and written nothing; no cached task ever did.
C3_StartStep ==
    \A i \in DOMAIN tasks :
        ( /\ i \in DOMAIN tasks'
          /\ tasks[i].pc = "start"
          /\ tasks'[i] # tasks[i]
          /\ ~tasks[i].force
          /\ files[tasks[i].file_path].exists
          /\ files[tasks[i].file_path].age < cache_ticks )
        => /\ tasks'[i].pc = "done"
           /\ tasks'[i].result = "cached"
           /\ tasks'[i].permits = 0
           /\ tasks'[i].requests = 0
           /\ tasks'[i].writes = 0
           /\ files' = files
           /\ level' = level
           /\ grants' = grants

C3_CachedIsFree ==
    \A i \in DOMAIN tasks :
        tasks[i].result = "cached" =>
            tasks[i].permits = 0 /\ tasks[i].requests = 0 /\ tasks[i].writes = 0

C3_FreshIsCached == [][C3_StartStep]_vars /\ []C3_CachedIsFree

\* An update run answered "cached" for a file it left as it was.
C3_Witness ==
    /\ mode = "update"
    /\ \E i \in DOMAIN tasks :
          /\ tasks[i].result = "cached"
          /\ ~tasks[i].force
          /\ files[tasks[i].file_path] = FreshFile

\* ----------------------------------------------------------------------- C4
\* C4: a task all of whose max_retries + 1 attempts failed returns False
\* and has written nothing; if there was no file at its path when the
\* update run created the task, and no other task has this path, there is
\* none afterwards.
C4_FailedLeavesNoFile ==
    \A i \in DOMAIN tasks :
        ( /\ tasks[i].pc = "done"
          /\ tasks[i].requests = max_retries + 1
          /\ tasks[i].result # "True" )
        => /\ tasks[i].result = "False"
           /\ tasks[i].writes = 0
           /\ (mode = "update" /\ tasks[i].force /\ ~SharesPath(i))
                 => ~files[tasks[i].file_path].exists

\* ----------------------------------------------------------------------- C5
\* C5: a task that failed max_retries times and succeeded on its last
\* attempt returns True, has written its file exactly once, and the file
\* holds the last response's body (when no other task has this path).
C5_WrittenOnce ==
    \A i \in DOMAIN tasks :
        ( /\ tasks[i].pc = "done"
          /\ tasks[i].attempt = max_retries
          /\ tasks[i].requests = max_retries + 1
          /\ tasks[i].result \notin {"False", "exception"} )
        => /\ tasks[i].result = "True"
           /\ tasks[i].writes = 1
           /\ ~SharesPath(i) =>
                 files[tasks[i].file_path].content = Body(i, max_retries)

\* ----------------------------------------------------------------------- C6
\* C6: no task waits to retry after a filesystem error: a task whose
\* handler caught one is done with False.
C6_FilesystemNotRetried ==
    \A i \in DOMAIN tasks :
        tasks[i].error = "FilesystemError" =>
            tasks[i].pc = "done" /\ tasks[i].result = "False"

\* ----------------------------------------------------------------------- C7
\* C7: a failed attempt a < max_retries puts the task to sleep for 2^a
\* seconds with its attempt number unchanged, and a failed attempt
\* a = max_retries ends the task with False and no sleep; a sleep ends
\* only when its time is up, then at once, and with attempt a + 1 asking
\* for a permit; while a task sleeps, a sibling that has a response to
\* handle, a start to make or a permit to take can take its step, and
\* the steps of others leave the sleeper alone.
C7_RetryStep ==
    \A i \in DOMAIN tasks :
        i \in DOMAIN tasks' =>
            LET t == tasks[i]
                u == tasks'[i]
            IN  /\ (t.pc = "request" /\ u.pc # "request" /\ u.result # "True") =>
                      IF t.attempt < max_retries
                      THEN /\ u.pc = "sleep"
                           /\ u.timer = pow2(t.attempt) * TicksPerSecond
                           /\ u.attempt = t.attempt
                           /\ u.result = "none"
                      ELSE /\ u.pc = "done"
                           /\ u.result = "False"
                           /\ u.timer = 0
                /\ (t.pc = "sleep" /\ u.pc # "sleep") =>
                      /\ t.timer = 0
                      /\ u.pc = "acquire"
                      /\ u.attempt = t.attempt + 1
                      /\ u.requests = t.requests
                /\ (t.pc = "sleep" /\ u.pc = "sleep") =>
                      /\ u.attempt = t.attempt
                      /\ \/ u = t
                         \/ /\ t.timer > 0
                            /\ u = [t EXCEPT !.timer = t.timer - 1]
                            /\ \A j \in DOMAIN tasks :
                                  tasks[j].pc = "sleep" /\ tasks[j].timer > 0 =>
                                      tasks'[j].timer = tasks[j].timer - 1

C7_SleepIsLocal ==
    \A i \in DOMAIN tasks :
        tasks[i].pc = "sleep" =>
            /\ tasks[i].attempt < max_retries
            /\ tasks[i].timer <= pow2(tasks[i].attempt) * TicksPerSecond
            /\ tasks[i].timer = 0 => ENABLED Wake(i) /\ ~ENABLED Tick
            /\ \A j \in DOMAIN tasks :
                  /\ tasks[j].pc = "start" => ENABLED Start(j)
                  /\ tasks[j].pc = "request" =>
                        ENABLED AttemptSucceeds(j) /\ ENABLED AttemptFails(j)
                  /\ (tasks[j].pc = "acquire" /\ has_capacity(level)) =>
                        ENABLED Acquire(j)

C7_Backoff == [][C7_RetryStep]_vars /\ []C7_SleepIsLocal

\* A task sleeps the whole 2^1 seconds after its second failure while a
\* sibling that started with it has a request under way.
C7_Witness ==
    \E i, j \in DOMAIN tasks :
        /\ i # j
        /\ tasks[i].pc = "sleep"
        /\ tasks[i].attempt = 1
        /\ tasks[i].timer = 2 * TicksPerSecond
        /\ tasks[j].pc = "request"

\* ----------------------------------------------------------------------- C8
\* C8: no task sends more than max_retries + 1 requests, and once the
\* tasks are gathered the run eventually reports its counts, every task
\* being done with True, cached or False.
C8_AttemptsBounded ==
    \A i \in DOMAIN tasks :
        tasks[i].requests <= max_retries + 1 /\ tasks[i].attempt <= max_retries

C8_Reported ==
    /\ main = "reported"
    /\ counts.reported
    /\ \A i \in DOMAIN tasks :
          tasks[i].pc = "done" /\ tasks[i].result \in {"True", "cached", "False"}

C8_Terminates == []C8_AttemptsBounded /\ ((main = "gather") ~> C8_Reported)

\* A run reported after one of its tasks used every attempt and failed
\* and another one needed a retry.
C8_Witness ==
    /\ C8_Reported
    /\ \E i, j \in DOMAIN tasks :
          /\ tasks[i].requests = max_retries + 1
          /\ tasks[i].result = "False"
          /\ tasks[j].requests = 2
          /\ tasks[j].result = "True"

\* ----------------------------------------------------------------------- C9
\* C9: a task that asks the limiter for a permit leaves the limiter only
\* with a permit, never with a refusal, and it eventually gets one.
C9_NoRefusal ==
    \A i \in DOMAIN tasks :
        (i \in DOMAIN tasks' /\ tasks[i].pc = "acquire" /\ tasks'[i] # tasks[i]) =>
            /\ tasks'[i].pc = "request"
            /\ tasks'[i].permits = tasks[i].permits + 1
            /\ tasks'[i].result = "none"

C9_EventuallyGranted ==
    /\ [][C9_NoRefusal]_vars
    /\ \A i \in 1..BurstEntries :
          (i \in DOMAIN tasks /\ tasks[i].pc = "acquire")
              ~> (i \in DOMAIN tasks /\ tasks[i].pc = "request")

\* A task waits at a full bucket while another task sleeps before its
\* retry.
C9_Witness ==
    \E i, j \in DOMAIN tasks :
        /\ tasks[i].pc = "acquire"
        /\ ~has_capacity(level)
        /\ tasks[j].pc = "sleep"

\* ---------------------------------------------------------------------- C10
\* C10: the step in which a task fails, by returning False or by raising,
\* leaves the gathering going and every other task as it was; no task is
\* ever done without an outcome of its own; and after a failure every
\* task still reaches its outcome.
C10_FailureStep ==
    \A i \in DOMAIN tasks :
        ( /\ i \in DOMAIN tasks'
          /\ tasks[i].result = "none"
          /\ tasks'[i].result \in {"False", "exception"} )
        => /\ main' = "gather"
           /\ \A j \in DOMAIN tasks : j # i => tasks'[j] = tasks[j]

C10_OwnOutcome ==
    \A i \in DOMAIN tasks :
        /\ tasks[i].pc = "done" <=> tasks[i].result # "none"
        /\ tasks[i].result \in Outcomes \cup {"none"}
        /\ tasks[i].result \in {"True", "False"} => tasks[i].requests >= 1

C10_SomeFailed ==
    /\ main = "gather"
    /\ \E i \in DOMAIN tasks : tasks[i].result \in {"False", "exception"}

C10_AllSettled ==
    /\ main \in {"gather", "reported"}
    /\ \A j \in DOMAIN tasks : tasks[j].pc = "done" /\ tasks[j].result \in Outcomes

C10_Isolation ==
    /\ [][C10_FailureStep]_vars
    /\ []C10_OwnOutcome
    /\ (C10_SomeFailed ~> C10_AllSettled)

\* One task raised before it sent a request, and its sibling went through
\* every retry and downloaded its file.
C10_Witness ==
    \E i, j \in DOMAIN tasks :
        /\ tasks[i].result = "exception"
        /\ tasks[i].requests = 0
        /\ tasks[j].result = "True"
        /\ tasks[j].requests = max_retries + 1

\* ---------------------------------------------------------------------- C11
\* C11: an update run creates each entry's task forced exactly when there
\* is no file at the entry's path at that moment; a forced task goes to
\* the limiter whatever the files' ages are, an unforced one answers
\* "cached" for a recent file and goes to the limiter for a stale one; a
\* forced task that is done has sent at least one request.
C11_BuildStep ==
    (mode = "update" /\ main = "prepare" /\ main' # "prepare") =>
        /\ Len(tasks') = Len(urls)
        /\ \A i \in DOMAIN tasks' :
              /\ tasks'[i].file_path = url_to_path(urls[i].url, urls[i].section)
              /\ tasks'[i].force = ~files[tasks'[i].file_path].exists
              /\ tasks'[i].pc = "start"

C11_FirstStep ==
    \A i \in DOMAIN tasks :
        ( /\ mode = "update"
          /\ i \in DOMAIN tasks'
          /\ tasks[i].pc = "start"
          /\ tasks'[i] # tasks[i] )
        => LET f == files[tasks[i].file_path]
           IN  IF ~tasks[i].force /\ f.exists /\ f.age < cache_ticks
               THEN tasks'[i].pc = "done" /\ tasks'[i].result = "cached"
               ELSE tasks'[i].pc = "acquire" /\ tasks'[i].result = "none"

C11_ForcedFetches ==
    \A i \in DOMAIN tasks :
        (mode = "update" /\ tasks[i].force /\ tasks[i].pc = "done") =>
            tasks[i].result # "cached" /\ tasks[i].requests >= 1

C12_InitBuildStep ==
    (mode = "init" /\ main # "gather" /\ main' = "gather") =>
        /\ Len(tasks') = Len(urls)
        /\ \A i \in DOMAIN tasks' : tasks'[i].force /\ tasks'[i].pc = "start"

C12_NeverCached ==
    mode = "init" =>
        /\ \A i \in DOMAIN tasks :
              /\ tasks[i].force
              /\ tasks[i].result # "cached"
              /\ tasks[i].pc \notin {"start", "acquire"} => tasks[i].requests >= 1
        /\ counts.reported => counts.cached = 0 /\ main = "reported"

C12_InitForce == [][C12_InitBuildStep]_vars /\ []C12_NeverCached

\* An init run that did not rebuild asks for a permit for an entry whose
\* file is there and recent.
C12_Witness ==
    /\ mode = "init"
    /\ ~should_rebuild
    /\ \E i \in DOMAIN tasks :
          /\ tasks[i].pc = "acquire"
          /\ tasks[i].requests = 0
          /\ files[tasks[i].file_path] = FreshFile

\* ---------------------------------------------------------------------- C13
\* C13: a run whose manifest request fails, and an update run that finds
\* no tree, stop there: no task exists, no permit was granted and no
\* counts are reported, then or ever after; the update run without a
\* tree stops at its first step, without asking for the manifest and
\* with llms.txt as it was.
C13_NothingLaunched ==
    main \in {"failed", "no_docs"} =>
        /\ tasks = <<>>
        /\ level = 0
        /\ \A a \in Window : grants[a] = 0
        /\ counts = NoCounts
        /\ main = "no_docs" => urls = <<>> /\ ~base_dir /\ mode = "update"

C13_AbortStep ==
    /\ main \in {"failed", "no_docs"} => UNCHANGED vars
    /\ (main = "fetch_llms" /\ main' \notin {"fetch_llms", "prepare"}) =>
          main' = "failed" /\ tasks' = <<>> /\ urls' = <<>> /\ counts' = NoCounts
    /\ (mode = "update" /\ main = "begin" /\ ~base_dir /\ main' # main) =>
          main' = "no_docs" /\ llms_file' = llms_file /\ urls' = urls
    /\ main' = "no_docs" => main \in {"begin", "no_docs"}

C13_RunLevelAbort == []C13_NothingLaunched /\ [][C13_AbortStep]_vars

\* An update run over an existing tree whose request for a manifest of
\* two entries failed.
C13_Witness ==
    /\ mode = "update"
    /\ main = "failed"
    /\ base_dir
    /\ Len(remote) = 2
    /\ tasks = <<>>

\* ---------------------------------------------------------------------- C14
\* C14: an init run decides at its first step, from the tree and the age
\* of llms.txt as they are then: rebuild exactly when the tree exists and
\* llms.txt is missing or not younger than the cache window.  The
\* decision never changes afterwards, whatever the run writes to
\* llms.txt; an archive is written and the tree wiped exactly when the
\* decision was to rebuild, and at no other step.
C14_DecisionStep ==
    /\ (mode = "init" /\ main = "begin" /\ main' # "begin") =>
          /\ should_rebuild' =
                (base_dir /\ ~(llms_file.exists /\ llms_file.age < cache_ticks))
          /\ main' = "fetch_llms"
          /\ llms_file' = llms_file
    /\ main # "begin" => should_rebuild' = should_rebuild
    /\ (mode = "init" /\ main = "prepare" /\ main' # "prepare") =>
          IF should_rebuild
          THEN main' \in {"backed_up", "failed"}
          ELSE main' = "gather" /\ backups' = backups /\ files' = files
    /\ backups' # backups =>
          should_rebuild /\ main = "prepare" /\ backups' = backups + 1
    /\ (main = "backed_up" /\ main' # "backed_up") =>
          should_rebuild /\ main' = "wiped" /\ files' = EmptyTree

C14_BackupIffDecided ==
    /\ mode = "update" => backups = 0 /\ ~should_rebuild
    /\ (mode = "init" /\ main \in {"gather", "reported"}) =>
          backups = (IF should_rebuild THEN 1 ELSE 0)

C14_RebuildDecision == [][C14_DecisionStep]_vars /\ []C14_BackupIffDecided

\* An init run backed up and wiped the tree although the llms.txt it has
\* written since is recent.
C14_Witness ==
    /\ mode = "init"
    /\ main = "gather"
    /\ should_rebuild
    /\ backups = 1
    /\ llms_file.exists
    /\ llms_file.age < cache_ticks

\* ---------------------------------------------------------------------- C15
\* C15: the file name of a task's path is made from the segments of its
\* URL's path that are not empty, the first one dropped when it is "en":
\* "index.md" when none remains, otherwise the last one, with ".md"
\* added unless it ends with it; the directories are the other segments,
\* under the section unless that is empty or "docs".
NonEmpty(seg) == seg # <<>>

Segments(url) ==
    LET segs == SelectSeq(split(url), NonEmpty)
    IN  IF segs # <<>> /\ segs[1] = <<"en">> THEN Tail(segs) ELSE segs

MappedName(url) ==
    LET segs == Segments(url)
        name == segs[Len(segs)]
    IN  IF segs = <<>> THEN <<"index", ".md">>
        ELSE IF name[Len(name)] = ".md" THEN name ELSE name \o <<".md">>

MappedDirs(url, section) ==
    LET segs == Segments(url)
        dirs == IF segs = <<>> THEN <<>> ELSE SubSeq(segs, 1, Len(segs) - 1)
    IN  IF section \in {<<>>, <<"docs">>}
        THEN <<base_dir_name>> \o dirs
        ELSE <<base_dir_name, section>> \o dirs

C15_PathMapper ==
    \A i \in DOMAIN tasks :
        tasks[i].file_path =
            Append(MappedDirs(urls[i].url, urls[i].section), MappedName(urls[i].url))

\* ---------------------------------------------------------------------- C16
\* C16: in an init run that rebuilds, the archive is written while the
\* tree is still whole and no task exists, the tree is removed only
\* after that and before any task exists, and the tasks are created only
\* after the tree was removed; when the archive fails the run ends with
\* the tree as it was and no task.
TreeWiped == \A p \in DOMAIN files : files[p] = NoFile

C16_OrderStep ==
    /\ (mode = "init" /\ main = "prepare" /\ should_rebuild /\ main' # "prepare") =>
          /\ main' \in {"backed_up", "failed"}
          /\ backups' = (IF main' = "backed_up" THEN backups + 1 ELSE backups)
          /\ files' = files
          /\ base_dir' = base_dir
          /\ tasks' = <<>>
    /\ (main = "backed_up" /\ main' # "backed_up") =>
          /\ main' = "wiped"
          /\ backups' = backups
          /\ TreeWiped'
          /\ ~base_dir'
          /\ tasks' = <<>>
    /\ (main = "wiped" /\ main' # "wiped") =>
          /\ main' = "gather"
          /\ Len(tasks') = Len(urls)
          /\ files' = files
          /\ backups' = backups
    /\ (mode = "init" /\ should_rebuild /\ tasks' # tasks /\ tasks = <<>>) =>
          main = "wiped" /\ backups = 1 /\ TreeWiped
    /\ main = "failed" => UNCHANGED vars

C16_OrderInv ==
    /\ main \in {"begin", "fetch_llms", "prepare", "failed"} =>
          backups = 0 /\ tasks = <<>>
    /\ main = "backed_up" => backups = 1 /\ tasks = <<>> /\ base_dir
    /\ main = "wiped" => backups = 1 /\ tasks = <<>> /\ TreeWiped
    /\ (mode = "init" /\ should_rebuild /\ tasks # <<>>) => backups = 1

C16_BackupThenWipeThenFetch == [][C16_OrderStep]_vars /\ []C16_OrderInv

\* The first task of a rebuilding init run is about to start: the archive
\* is written and the tree is empty.
C16_Witness ==
    /\ mode = "init"
    /\ main = "gather"
    /\ should_rebuild
    /\ backups = 1
    /\ TreeWiped
    /\ Len(tasks) = 2
    /\ \A i \in DOMAIN tasks : tasks[i].pc = "start"

\* ---------------------------------------------------------------------- C17
\* C17: a task that succeeds leaves at its path the whole body of its own
\* response, whatever another task had written there, and a file changes
\* only by such a step, by a failed write, by the wipe or by ageing.
\* Hence when the tasks of two distinct entries with one path have both
\* returned True, the file holds the body of one of the two, both count
\* as downloaded and none as failed.
C17_WriteStep ==
    /\ \A i \in DOMAIN tasks :
          (i \in DOMAIN tasks' /\ tasks[i].result = "none" /\ tasks'[i].result = "True") =>
              /\ files'[tasks[i].file_path].exists
              /\ files'[tasks[i].file_path].content = Body(i, tasks[i].attempt)
    /\ \A p \in DOMAIN files :
          files'[p].content # files[p].content =>
              \/ main = "backed_up"
              \/ \E i \in DOMAIN tasks :
                    /\ tasks[i].file_path = p
                    /\ tasks[i].pc = "request"
                    /\ tasks'[i].pc # "request"
                    /\ files'[p].content \in {Body(i, tasks[i].attempt), Partial}

C17_BothFetched ==
    \A i, j \in DOMAIN tasks :
        ( /\ i # j
          /\ urls[i] # urls[j]
          /\ tasks[i].file_path = tasks[j].file_path
          /\ tasks[i].result = "True"
          /\ tasks[j].result = "True" )
        => /\ files[tasks[i].file_path].exists
           /\ files[tasks[i].file_path].content \in
                 {Body(k, tasks[k].attempt) :
                    k \in {m \in DOMAIN tasks : tasks[m].file_path = tasks[i].file_path}}
           /\ counts.reported =>
                 counts.success >= 2 /\ counts.fail = CountIn({"False"})

C17_LastWriterWins == [][C17_WriteStep]_vars /\ []C17_BothFetched

\* Two entries with one path were both downloaded, the first of them
\* last: the file holds its body, and both are counted.
C17_Witness ==
    /\ counts.reported
    /\ Len(tasks) = 3
    /\ urls[1] # urls[3]
    /\ tasks[1].file_path = tasks[3].file_path
    /\ tasks[1].result = "True"
    /\ tasks[3].result = "True"
    /\ files[tasks[1].file_path].content = Body(1, tasks[1].attempt)
    /\ counts.success >= 2

\* ---------------------------------------------------------------------- C18
\* C18: the step that fetches the manifest leaves llms.txt as it is, age
\* included, when llms.txt holds the text fetched, and otherwise writes
\* the text into a new llms.txt; apart from that step llms.txt only
\* grows older.
C18_FetchStep ==
    /\ (main = "fetch_llms" /\ main' = "prepare") =>
          /\ urls' = remote
          /\ IF llms_file.exists /\ llms_file.content = Text(remote, newline)
             THEN llms_file' = llms_file
             ELSE /\ llms_file'.exists
                  /\ llms_file'.content = Text(remote, newline)
                  /\ llms_file'.age = 0
    /\ (llms_file' # llms_file /\ ~(main = "fetch_llms" /\ main' = "prepare")) =>
          /\ llms_file.exists
          /\ llms_file' = [llms_file EXCEPT !.age = llms_file.age + 1]
          /\ main' = main

C18_SentinelWriteIfChanged == [][C18_FetchStep]_vars

\* ---------------------------------------------------------------------- C19
\* C19: until the manifest has been fetched an init run writes no archive
\* and changes neither the tree nor the content of any file in it, and
\* the step in which the manifest request fails changes nothing but the
\* run's position and is the run's last step, whatever was decided about
\* rebuilding.
C19_TreeKept ==
    /\ base_dir' = base_dir
    /\ backups' = backups
    /\ tasks' = tasks
    /\ \A p \in DOMAIN files :
          /\ files'[p].exists = files[p].exists
          /\ files'[p].content = files[p].content

C19_FailStep ==
    /\ (mode = "init" /\ main \in {"begin", "fetch_llms"}) => C19_TreeKept
    /\ (mode = "init" /\ main = "fetch_llms" /\ main' = "failed") =>
          /\ files' = files
          /\ llms_file' = llms_file
          /\ should_rebuild' = should_rebuild
    /\ main = "failed" => UNCHANGED vars

C19_BeforeManifest ==
    (mode = "init" /\ main \in {"begin", "fetch_llms"}) =>
        backups = 0 /\ tasks = <<>> /\ level = 0

C19_ManifestFailureKeepsTree == [][C19_FailStep]_vars /\ []C19_BeforeManifest

\* An init run that had decided to rebuild failed to fetch the manifest:
\* the old files are there and no archive was written.
C19_Witness ==
    /\ mode = "init"
    /\ main = "failed"
    /\ should_rebuild
    /\ llms_file = NoFile
    /\ backups = 0
    /\ base_dir
    /\ files[PathA].exists
    /\ files[PathA].content = OldContent

\* ---------------------------------------------------------------------- C20
\* C20: at every moment a task has taken as many permits as it has sent
\* requests: one for each attempt begun, taken in the step that sends
\* the request, and at no other step.  A cached task has taken none, a
\* task that returned True or False between 1 and max_retries + 1, and
\* all tasks together at most max_retries + 1 times their number.
RECURSIVE SumPermits(_)
SumPermits(k) == IF k = 0 THEN 0 ELSE tasks[k].permits + SumPermits(k - 1)

C20_PermitPerAttempt ==
    /\ \A i \in DOMAIN tasks :
          /\ tasks[i].permits = tasks[i].requests
          /\ tasks[i].permits =
                (IF tasks[i].pc \in {"start", "acquire"} \/ tasks[i].result = "cached"
                 THEN tasks[i].attempt ELSE tasks[i].attempt + 1)
          /\ tasks[i].result = "cached" => tasks[i].permits = 0
          /\ tasks[i].result \in {"True", "False"} =>
                tasks[i].permits >= 1 /\ tasks[i].permits <= max_retries + 1
    /\ SumPermits(Len(tasks)) <= Len(tasks) * (max_retries + 1)

C20_PermitStep ==
    \A i \in DOMAIN tasks :
        i \in DOMAIN tasks' =>
            /\ tasks'[i].permits # tasks[i].permits =>
                  /\ tasks[i].pc = "acquire"
                  /\ tasks'[i].pc = "request"
                  /\ tasks'[i].permits = tasks[i].permits + 1
                  /\ level' = level + 1
            /\ (tasks[i].pc # "request" /\ tasks'[i].pc = "request") =>
                  tasks'[i].permits = tasks[i].permits + 1

C20_PermitsEqualAttempts == []C20_PermitPerAttempt /\ [][C20_PermitStep]_vars

\* A run reported after one task was answered from the cache and another
\* one used every attempt.
C20_Witness ==
    /\ counts.reported
    /\ \E i, j \in DOMAIN tasks :
          /\ tasks[i].result = "cached"
          /\ tasks[i].permits = 0
          /\ tasks[j].result = "False"
          /\ tasks[j].permits = max_retries + 1

====
